---------------------------- MODULE Spec2Model ----------------------------
(***************************************************************************)
(* Model of src/ocr.py (ScreenOCROrMonitor): the background capture loop   *)
(* (monitor_loop), the handoff queue (data_queue), the per-channel series  *)
(* kept by process_queue, clear_all_data, add/remove channel, start/stop   *)
(* monitoring, chart point selection and the chart's axis limits (redraw,   *)
(* zoom, scroll, drag, reset).                                             *)
(*                                                                         *)
(* Two execution contexts are modelled.  The UI context (Tk main loop)     *)
(* runs one handler at a time; the two handlers that loop on the queue     *)
(* (process_queue, clear_all_data) are split at each get_nowait() so that  *)
(* the producer's put() can interleave with them, and the variable ui      *)
(* says which handler the main loop is inside.  Every monitor_loop thread  *)
(* created by start_monitoring has a program counter of its own.           *)
(*                                                                         *)
(* Python indices are kept 0-based (channel_index, point index); sequence  *)
(* accesses add 1.                                                         *)
(***************************************************************************)
EXTENDS Integers, Sequences, FiniteSets, Bags, TLC

(***************************************************************************)
(* Bounds of the model.                                                    *)
(***************************************************************************)
\* self.max_points (1000 at src/ocr.py:100), scaled down so that eviction happens
max_points == 2
\* most channels in self.channels at once
MaxChannels == 2
\* most channels ever created (add_channel)
MaxCreated == 2
\* most monitor_loop threads alive at once
MaxThreads == 2
\* most readings ever put on data_queue
MaxReadings == 3
\* most capture iterations begun (calls of datetime.now())
MaxClock == 3
\* most zoom or scroll steps in a row whose axis limits the model represents exactly
MaxScalings == 2
\* clock ticks in a day: the instants datetime.now() returns are taken 30 minutes apart
TicksPerDay == 48

\* most tokens in a text given to parse_value
MaxTokens == 4

\* values parse_value can return (a sample of [0, 100000])
Values == {0, 7}
\* parse_value's None
NoValue == -1

(***************************************************************************)
(* parse_value (src/ocr.py:733-769).  A text is a sequence of tokens, with *)
(* any white space between them: a word, or a number given by its decimal  *)
(* digits.  The words stand for what the patterns look for: "countrate:"   *)
(* for the label of patterns 1 and 3 with either colon, "Rate:" and        *)
(* "value:" for the labels of patterns 4 and 5, "cps" and "CPS" for the    *)
(* unit, "x" for any other text.                                           *)
(***************************************************************************)
Word(w) == [word |-> w, digits |-> <<>>]
Number(digits) == [word |-> "", digits |-> digits]
IsNumber(tok) == tok.digits # <<>>

Tokens ==
    {Word("countrate:"), Word("Rate:"), Word("value:"), Word("cps"), Word("CPS"),
     Word("x"), Number(<<7>>), Number(<<1, 0, 0, 0, 0, 0>>),
     Number(<<1, 0, 0, 0, 0, 1>>), Number(<<1, 0, 0, 0, 0, 0, 0>>)}

\* the texts of at most MaxTokens tokens
Texts == UNION {[1..n -> Tokens] : n \in 0..MaxTokens}

\* re.IGNORECASE (line 752): letters are compared without their case
Fold(w) ==
    CASE w = "Rate:" -> "rate:"
      [] w = "CPS" -> "cps"
      [] OTHER -> w

\* lines 740-749: the patterns in the order they are tried.  label: the word that must
\* come before the number ("" for none); unit: cps must follow the number; cut: the
\* group is \d{1,6}\.?\d{0,2}, at most six leading digits of the number
patterns ==
    <<[label |-> "countrate:", unit |-> TRUE, cut |-> FALSE],
      [label |-> "", unit |-> TRUE, cut |-> FALSE],
      [label |-> "countrate:", unit |-> FALSE, cut |-> FALSE],
      [label |-> "rate:", unit |-> FALSE, cut |-> FALSE],
      [label |-> "value:", unit |-> FALSE, cut |-> FALSE],
      [label |-> "", unit |-> FALSE, cut |-> TRUE],
      [label |-> "", unit |-> FALSE, cut |-> FALSE]>>

\* pattern matches text with its group on the number at position k
MatchAt(pattern, text, k) ==
    /\ IsNumber(text[k])
    /\ pattern.label # "" => (k > 1 /\ Fold(text[k - 1].word) = pattern.label)
    /\ pattern.unit => (k < Len(text) /\ Fold(text[k + 1].word) = "cps")

\* re.search (line 752): the position of the group of the leftmost match, 0 for None
Search(pattern, text) ==
    IF \E k \in 1..Len(text) : MatchAt(pattern, text, k)
    THEN CHOOSE k \in 1..Len(text) :
             /\ MatchAt(pattern, text, k)
             /\ \A j \in 1..(k - 1) : ~MatchAt(pattern, text, j)
    ELSE 0

\* match.group(1) (line 754): the digits of the number, the first six for pattern 6
Group(pattern, text, k) ==
    IF pattern.cut /\ Len(text[k].digits) > 6
    THEN SubSeq(text[k].digits, 1, 6)
    ELSE text[k].digits

\* float(value_str) (line 755) of a string of decimal digits
RECURSIVE Float(_)
Float(value_str) ==
    IF value_str = <<>>
    THEN 0
    ELSE 10 * Float(SubSeq(value_str, 1, Len(value_str) - 1)) + value_str[Len(value_str)]

\* faulty variant of InRange: every value is accepted
InRangeAlways(v) == TRUE

\* line 759: the largest value accepted
MaxValue == 100000

\* line 759: 0 <= value <= 100000
InRange(v) == 0 <= v /\ v <= MaxValue

\* faulty variant of AfterOutOfRange: a match out of range ends the extraction
StopsOutOfRange(rest) == NoValue

\* lines 762-764: a match out of range is logged and the loop continues: the result is
\* what the patterns after it give
AfterOutOfRange(rest) == rest

\* lines 751-767: the loop from pattern i on
RECURSIVE ParseFrom(_, _)
ParseFrom(text, i) ==
    IF i > Len(patterns)
    THEN NoValue
    ELSE LET k == Search(patterns[i], text)
         IN  IF k = 0
             THEN ParseFrom(text, i + 1)
             ELSE LET v == Float(Group(patterns[i], text, k))
                  IN  IF InRange(v) THEN v ELSE AfterOutOfRange(ParseFrom(text, i + 1))

\* parse_value(text): strip() removes white space at the ends, which the tokens do not
\* hold; float() of a group of digits does not raise, so the except branch
\* (lines 768-769) is not reached
parse_value(text) == ParseFrom(text, 1)

\* texts the OCR engine produces in the capture loop
OcrTexts ==
    {<<Word("countrate:"), Number(<<0>>), Word("cps")>>,
     <<Number(<<7>>)>>,
     <<Word("x")>>,
     <<Number(<<1, 0, 0, 0, 0, 1>>), Word("CPS")>>}

\* what parse_value returns for the text the OCR engine produced
ParseOutcomes == {parse_value(text) : text \in OcrTexts}

\* what parse_value returns for the texts of at most MaxTokens tokens
ParseResults == {parse_value(text) : text \in Texts}
\* outcomes of ImageGrab.grab + image_to_string: they return, or raise
CaptureOutcomes == {"ok", "raise"}
\* regions the user can drag in the selection window
Rects == {<<0, 0, 20, 20>>, <<0, 0, 10, 30>>}
\* data-space pointer positions of chart events
ClickX == 1..MaxClock
ClickY == Values
\* data-space heights of the pointer while it drags the empty chart
PointerY == 0..1

VARIABLES
    monitoring,            \* self.monitoring
    channels,              \* self.channels: list of channel dicts
    active_channel_index,  \* self.active_channel_index
    data_queue,            \* self.data_queue (queue.Queue, unbounded)
    selected_points,       \* self.selected_points: (channel_idx, point_idx) pairs
    add_channel_btn,       \* state of self.add_channel_btn
    remove_channel_btn,    \* state of self.remove_channel_btn
    start_btn,             \* state of self.start_btn
    threads,               \* the live monitor_loop threads: a bag of [pc, i, timestamp]
    clock,                 \* last value returned by datetime.now(), in ticks
    ui,                    \* handler the Tk main loop is inside
    new_data_added,        \* process_queue's local new_data_added
    xlim,                  \* self.ax.get_xlim(), in 1/Unit of a clock tick
    ylim,                  \* self.ax.get_ylim(), in 1/Unit
    drag_start,            \* self.drag_start: <<>> for None, or <<xdata, ydata>>
    ocr_text,              \* the text handed to parse_value
    parsed,                \* <<>>, or <<v>> when parse_value has returned v
    csvfile,               \* the file save_csv wrote last: its header row and data rows
    scheduled,             \* a root.after callback of process_queue is pending or running
    \* history variables (not program state)
    nput,                  \* number of readings ever put (the last reading's rid)
    created,               \* number of channels ever created (the last channel's uid)
    purged,                \* rids that were queued when a confirmed clear_all_data ran
    stale,                 \* timestamps taken before a clear_all_data completed that a
                           \* capture pass or a queued reading still carries
    taken,                 \* rids get_nowait has returned
    appended,              \* rids that were appended to a series
    got_twice,             \* get_nowait returned some reading a second time
    appended_twice,        \* some reading was appended a second time
    batch,                 \* readings dequeued by the running process_queue
    before,                \* self.channels when the running process_queue began
    view_before,           \* <<handler, xlim, ylim>>: the handler that set the axis
                           \* limits last and the limits it found; <<>> after a redraw
    raised                 \* the last run of process_queue ended in its except clause

vars == <<monitoring, channels, active_channel_index, data_queue, selected_points,
          add_channel_btn, remove_channel_btn, start_btn, threads, clock, ui,
          new_data_added, xlim, ylim, drag_start, ocr_text, parsed, csvfile, scheduled,
          nput, created, purged, stale, taken, appended, got_twice, appended_twice,
          batch, before, view_before, raised>>

NORMAL == "normal"
DISABLED == "disabled"

(***************************************************************************)
(* Helpers.                                                                *)
(***************************************************************************)
\* Python s[k:]
Slice(s, k) == SubSeq(s, k + 1, Len(s))

\* Python list.pop(k), the remaining list
Pop(s, k) == SubSeq(s, 1, k) \o SubSeq(s, k + 2, Len(s))

Min2(a, b) == IF a < b THEN a ELSE b

Max2(a, b) == IF a > b THEN a ELSE b

\* min(S) and max(S) of a non-empty set of integers
SetMin(S) == CHOOSE m \in S : \A n \in S : m <= n
SetMax(S) == CHOOSE m \in S : \A n \in S : m >= n

(***************************************************************************)
(* The chart's axis limits and its redraw, _update_chart_safe              *)
(* (src/ocr.py:880-952).  Limits are pairs <<low, high>> of integers in    *)
(* 1/Unit of one clock tick (x) or of one value unit (y), so that the      *)
(* factors 0.8, 0.9, 1.1, 1.2 and the 10% margin are computed exactly.     *)
(***************************************************************************)
\* the fixed-point scale: a width that is a multiple of Unit can be scaled
\* MaxScalings times by a factor of n/10 about its centre without rounding
Unit == 2 * 10 ^ (MaxScalings + 1)

\* lines 891-893: the channels the redraw plots
Plotted(chs) ==
    {c \in 1..Len(chs) : chs[c].visible /\ chs[c].times # <<>> /\ chs[c].values # <<>>}

\* the times given to ax.plot (lines 896-901)
PlottedTimes(chs) == UNION {{chs[c].times[k] : k \in 1..Len(chs[c].times)} : c \in Plotted(chs)}

\* lines 935-938: all_values, of the visible channels that have values
AllValues(chs) ==
    UNION {{chs[c].values[k] : k \in 1..Len(chs[c].values)} :
               c \in {d \in 1..Len(chs) : chs[d].visible /\ chs[d].values # <<>>}}

\* matplotlib's autoscale of an axis left to it after ax.clear() (line 886): the data
\* range with a margin of 5% on each side, a single value widened on both sides
Autoscale(lo, hi) ==
    IF lo = hi
    THEN <<(lo - 2) * Unit, (hi + 2) * Unit>>
    ELSE <<lo * Unit - ((hi - lo) * Unit) \div 20, hi * Unit + ((hi - lo) * Unit) \div 20>>

\* lines 940-943: margin = (y_max - y_min) * 0.1 if y_max > y_min else 1;
\* set_ylim(max(0, y_min - margin), y_max + margin)
ValueLimits(y_min, y_max) ==
    LET margin == IF y_max > y_min THEN ((y_max - y_min) * Unit) \div 10 ELSE Unit
    IN  <<Max2(0, y_min * Unit - margin), y_max * Unit + margin>>

\* the x limits after _update_chart_safe has drawn chs (lines 886, 917-920); the axis
\* is in days, so set_xlim(0, 1) is TicksPerDay ticks wide
ChartXlim(chs) ==
    IF Plotted(chs) = {}
    THEN <<0, TicksPerDay * Unit>>
    ELSE Autoscale(SetMin(PlottedTimes(chs)), SetMax(PlottedTimes(chs)))

\* the y limits after _update_chart_safe has drawn chs (lines 886, 917-921, 935-943)
ChartYlim(chs) ==
    IF Plotted(chs) = {}
    THEN <<0, Unit>>
    ELSE ValueLimits(SetMin(AllValues(chs)), SetMax(AllValues(chs)))

\* faulty variant of UpdateChart: the limits the user set are kept over the redraw
UpdateChartKeepingView(chs) == UNCHANGED <<xlim, ylim, view_before>>

\* update_chart (lines 867-878) with chs the channels it draws: ax.clear() forgets the
\* limits and the redraw sets them from the data
UpdateChart(chs) ==
    /\ xlim' = ChartXlim(chs)
    /\ ylim' = ChartYlim(chs)
    /\ view_before' = <<>>

\* no file has been exported
NoFile == [headers |-> <<>>, rows |-> <<>>]

\* the state after __init__ (lines 95-104) and the first drawing of the chart, with text
\* the text parse_value is given
InitWith(text) ==
    /\ monitoring = FALSE
    /\ channels = <<>>
    /\ active_channel_index = 0
    /\ data_queue = <<>>
    /\ selected_points = {}
    /\ add_channel_btn = NORMAL
    /\ remove_channel_btn = DISABLED
    /\ start_btn = DISABLED
    /\ threads = EmptyBag
    /\ clock = 0
    /\ ui = "idle"
    /\ new_data_added = FALSE
    /\ xlim = <<0, TicksPerDay * Unit>>
    /\ ylim = <<0, Unit>>
    /\ drag_start = <<>>
    /\ ocr_text = text
    /\ parsed = <<>>
    /\ csvfile = NoFile
    /\ scheduled = TRUE
    /\ view_before = <<>>
    /\ nput = 0
    /\ created = 0
    /\ purged = {}
    /\ stale = {}
    /\ taken = {}
    /\ appended = {}
    /\ got_twice = FALSE
    /\ appended_twice = FALSE
    /\ batch = <<>>
    /\ before = <<>>
    /\ raised = FALSE

Init == InitWith(<<>>)

\* parse_value is called on the text (line 715)
ParseValue ==
    /\ parsed = <<>>
    /\ parsed' = <<parse_value(ocr_text)>>
    /\ UNCHANGED <<monitoring, channels, active_channel_index, data_queue, selected_points,
                   add_channel_btn, remove_channel_btn, start_btn, threads, clock, ui,
                   new_data_added, xlim, ylim, drag_start, ocr_text, csvfile, scheduled,
                   view_before, raised, nput, created, purged, stale, taken, appended,
                   got_twice, appended_twice, batch, before>>

(***************************************************************************)
(* process_queue (src/ocr.py:771-818).                                     *)
(***************************************************************************)
\* the timestamps that the capture passes under way in ths and the readings queued in
\* q carry
Carried(ths, q) ==
    {th.timestamp : th \in {t \in BagToSet(ths) : t.pc = "for"}}
        \cup {q[k].timestamp : k \in 1..Len(q)}

\* faulty variant of GetNowaitRest: the head is read but left on the queue
GetNowaitPeek(q) == q

\* data_queue.get_nowait(): the queue after the head was taken
GetNowaitRest(q) == Tail(q)

\* lines 786-788: the index names a channel and the value is a number >= 0
Applies(chs, r) ==
    /\ 0 <= r.channel_index
    /\ r.channel_index < Len(chs)
    /\ r.value # NoValue
    /\ r.value >= 0

\* faulty variant of LimitPoints: the lists are never cut
LimitPointsNever(ch) == ch

\* faulty variant of LimitPoints: the first max_points entries are kept, [:max_points]
LimitPointsOldest(ch) ==
    [ch EXCEPT !.times = SubSeq(ch.times, 1, Min2(Len(ch.times), max_points)),
               !.values = SubSeq(ch.values, 1, Min2(Len(ch.values), max_points)),
               !.src = SubSeq(ch.src, 1, Min2(Len(ch.src), max_points))]

\* faulty variant of LimitPoints: times is cut, values is not
LimitPointsTimesOnly(ch) ==
    IF Len(ch.times) > max_points
    THEN LET excess == Len(ch.times) - max_points
         IN  [ch EXCEPT !.times = Slice(ch.times, excess),
                        !.src = Slice(ch.src, excess)]
    ELSE ch

\* lines 794-797: excess = len(times) - max_points; times[excess:], values[excess:]
LimitPoints(ch) ==
    IF Len(ch.times) > max_points
    THEN LET excess == Len(ch.times) - max_points
         IN  [ch EXCEPT !.times = Slice(ch.times, excess),
                        !.values = Slice(ch.values, excess),
                        !.src = Slice(ch.src, excess)]
    ELSE ch

\* lines 789-797: append the point to the channel's parallel lists, then limit them
\* (src: history field, the reading each point came from)
AppendPoint(ch, r) ==
    LimitPoints([ch EXCEPT !.times = Append(ch.times, r.timestamp),
                           !.values = Append(ch.values, r.value),
                           !.src = Append(ch.src, r)])

\* lines 786-797: self.channels after one dequeued reading was handled
ProcessReading(chs, r) ==
    IF Applies(chs, r)
    THEN [chs EXCEPT ![r.channel_index + 1] = AppendPoint(chs[r.channel_index + 1], r)]
    ELSE chs

\* update_channels_display (lines 600-610): the remove button follows the list
UpdateChannelsDisplay(chs) == IF chs = <<>> THEN DISABLED ELSE NORMAL

\* faulty variant of NewDataAddedAtEntry: the flag is set on entry
NewDataAddedSet == TRUE

\* line 777: new_data_added = False on entry
NewDataAddedAtEntry == FALSE

\* lines 802-806: when data was added, update_current_values_display,
\* update_channels_display and update_chart; otherwise nothing
RefreshDisplays(flag) ==
    IF flag
    THEN /\ remove_channel_btn' = UpdateChannelsDisplay(channels)
         /\ UpdateChart(channels)
    ELSE UNCHANGED <<remove_channel_btn, xlim, ylim, view_before>>

\* faulty variant of Rescheduled: the except clause is the end of the handler
RescheduledUnlessRaised(exception) == ~exception

\* lines 813-818: root.after(100, self.process_queue) follows the try statement, on
\* the path through the except clause (808-811) as on the normal one; the window
\* exists for as long as the main loop runs handlers
Rescheduled(exception) == TRUE

\* root.after(100, self.process_queue) fires with nothing queued: the first
\* get_nowait raises queue.Empty, new_data_added stays False, the handler reschedules
\* itself (lines 771-783, 799-818)
ProcessQueueIdle ==
    /\ ui = "idle"
    /\ scheduled
    /\ data_queue = <<>>
    /\ RefreshDisplays(NewDataAddedAtEntry)
    /\ scheduled' = Rescheduled(FALSE)
    /\ raised' = FALSE
    /\ UNCHANGED <<monitoring, channels, active_channel_index, data_queue, selected_points,
                   add_channel_btn, start_btn, threads, clock, ui, new_data_added,
                   drag_start, ocr_text, parsed, csvfile, nput, created, purged, stale,
                   taken, appended, got_twice, appended_twice, batch, before>>

\* one turn of the while loop with a reading returned (lines 781-797); the first turn
\* begins the handler (lines 771-778)
ProcessQueueGet ==
    /\ ui \in {"idle", "process_queue"}
    /\ ui = "idle" => scheduled
    /\ data_queue # <<>>
    /\ LET r == Head(data_queue)
           first == (ui = "idle")
       IN  /\ data_queue' = GetNowaitRest(data_queue)
           /\ channels' = ProcessReading(channels, r)
           /\ new_data_added' =
                  ((IF first THEN NewDataAddedAtEntry ELSE new_data_added)
                       \/ Applies(channels, r))
           /\ taken' = taken \cup {r.rid}
           /\ got_twice' = (got_twice \/ r.rid \in taken)
           /\ appended' = IF Applies(channels, r) THEN appended \cup {r.rid} ELSE appended
           /\ appended_twice' =
                  (appended_twice \/ (Applies(channels, r) /\ r.rid \in appended))
           /\ batch' = IF first THEN <<r>> ELSE Append(batch, r)
           /\ before' = IF first THEN channels ELSE before
    /\ ui' = "process_queue"
    /\ stale' = stale \cap Carried(threads, data_queue')
    /\ UNCHANGED <<monitoring, active_channel_index, selected_points, add_channel_btn,
                   remove_channel_btn, start_btn, threads, clock, xlim, ylim, drag_start,
                   ocr_text, parsed, csvfile, scheduled, view_before, raised, nput, created,
                   purged>>

\* get_nowait raises queue.Empty after readings were handled: break, refresh the
\* displays if data was added, reschedule (lines 799-818)
ProcessQueueEmpty ==
    /\ ui = "process_queue"
    /\ data_queue = <<>>
    /\ ui' = "idle"
    /\ RefreshDisplays(new_data_added)
    /\ new_data_added' = FALSE
    /\ batch' = <<>>
    /\ before' = <<>>
    /\ scheduled' = Rescheduled(FALSE)
    /\ raised' = FALSE
    /\ UNCHANGED <<monitoring, channels, active_channel_index, data_queue, selected_points,
                   add_channel_btn, start_btn, threads, clock, drag_start, ocr_text, parsed,
                   csvfile, nput, created, purged, stale, taken, appended, got_twice,
                   appended_twice>>

\* an exception inside the while loop after get_nowait returned a reading (lines
\* 783-797): the reading is out of the queue and is not appended; the except clause
\* (808-811) ends the run, nothing is refreshed, and the reschedule follows (813-818)
ProcessQueueRaiseApply ==
    /\ ui \in {"idle", "process_queue"}
    /\ ui = "idle" => scheduled
    /\ data_queue # <<>>
    /\ data_queue' = GetNowaitRest(data_queue)
    /\ taken' = taken \cup {Head(data_queue).rid}
    /\ got_twice' = (got_twice \/ Head(data_queue).rid \in taken)
    /\ stale' = stale \cap Carried(threads, data_queue')
    /\ ui' = "idle"
    /\ new_data_added' = FALSE
    /\ batch' = <<>>
    /\ before' = <<>>
    /\ scheduled' = Rescheduled(TRUE)
    /\ raised' = TRUE
    /\ UNCHANGED <<monitoring, channels, active_channel_index, selected_points,
                   add_channel_btn, remove_channel_btn, start_btn, threads, clock, xlim,
                   ylim, drag_start, ocr_text, parsed, csvfile, view_before, nput, created,
                   purged, appended, appended_twice>>

\* an exception in the refresh after data was added (lines 802-806); shown tells
\* whether update_channels_display had returned, the chart is not redrawn
ProcessQueueRaiseRefresh(shown) ==
    /\ ui = "process_queue"
    /\ data_queue = <<>>
    /\ new_data_added
    /\ remove_channel_btn' =
           IF shown THEN UpdateChannelsDisplay(channels) ELSE remove_channel_btn
    /\ ui' = "idle"
    /\ new_data_added' = FALSE
    /\ batch' = <<>>
    /\ before' = <<>>
    /\ scheduled' = Rescheduled(TRUE)
    /\ raised' = TRUE
    /\ UNCHANGED <<monitoring, channels, active_channel_index, data_queue, selected_points,
                   add_channel_btn, start_btn, threads, clock, xlim, ylim, drag_start,
                   ocr_text, parsed, csvfile, view_before, nput, created, purged, stale,
                   taken, appended, got_twice, appended_twice>>

(***************************************************************************)
(* clear_all_data (src/ocr.py:1100-1127).                                  *)
(***************************************************************************)
\* faulty variant of ClearLoopDone: the purge loop is left at once
ClearLoopSkipped(q) == TRUE

\* the purge loop's exit: get_nowait raised queue.Empty (lines 1107-1111)
ClearLoopDone(q) == q = <<>>

\* lines 1114-1116: times.clear(), values.clear()
ClearChannel(ch) == [ch EXCEPT !.times = <<>>, !.values = <<>>, !.src = <<>>]

\* faulty variant of ClearedSelection: the selection is kept
KeptSelection(sel) == sel

\* line 1119: self.selected_points.clear()
ClearedSelection(sel) == {}

\* the rids of the readings in queue q
QueuedRids(q) == {q[k].rid : k \in 1..Len(q)}

\* lines 1113-1125: series and selection are cleared, the displays refreshed
\* (stale: history, the timestamps the capture passes under way hold at this moment)
ClearAllDataFinish ==
    /\ channels' = [k \in 1..Len(channels) |-> ClearChannel(channels[k])]
    /\ selected_points' = ClearedSelection(selected_points)
    /\ remove_channel_btn' = UpdateChannelsDisplay(channels)
    /\ UpdateChart([k \in 1..Len(channels) |-> ClearChannel(channels[k])])
    /\ ui' = "idle"
    /\ stale' = Carried(threads, <<>>)

\* the button is pressed and the dialog answered (lines 1102-1105); on yes the purge
\* loop makes its first get_nowait (lines 1107-1111)
ClearAllDataConfirm(yes) ==
    /\ ui = "idle"
    /\ IF channels # <<>> /\ yes
       THEN /\ purged' = purged \cup QueuedRids(data_queue)
            /\ IF ClearLoopDone(data_queue)
               THEN /\ ClearAllDataFinish
                    /\ UNCHANGED <<data_queue, taken, got_twice>>
               ELSE /\ ui' = "clear_all_data"
                    /\ data_queue' = GetNowaitRest(data_queue)
                    /\ taken' = taken \cup {Head(data_queue).rid}
                    /\ got_twice' = (got_twice \/ Head(data_queue).rid \in taken)
                    /\ UNCHANGED <<channels, selected_points, remove_channel_btn, xlim,
                                   ylim, view_before, stale>>
       ELSE UNCHANGED <<ui, purged, data_queue, taken, got_twice, channels,
                        selected_points, remove_channel_btn, xlim, ylim, view_before,
                        stale>>
    /\ UNCHANGED <<monitoring, active_channel_index, add_channel_btn, start_btn, threads,
                   clock, new_data_added, drag_start, ocr_text, parsed, csvfile, scheduled,
                   raised, nput, created, appended, appended_twice, batch, before>>

\* a later turn of the purge loop with a reading returned (lines 1107-1109)
ClearAllDataGet ==
    /\ ui = "clear_all_data"
    /\ ~ClearLoopDone(data_queue)
    /\ data_queue' = GetNowaitRest(data_queue)
    /\ taken' = taken \cup {Head(data_queue).rid}
    /\ got_twice' = (got_twice \/ Head(data_queue).rid \in taken)
    /\ UNCHANGED <<monitoring, channels, active_channel_index, selected_points,
                   add_channel_btn, remove_channel_btn, start_btn, threads, clock, ui,
                   new_data_added, xlim, ylim, drag_start, ocr_text, parsed, csvfile,
                   scheduled, view_before, raised, nput, created, purged, stale, appended,
                   appended_twice, batch, before>>

\* the purge loop ends on queue.Empty (lines 1110-1125)
ClearAllDataEmpty ==
    /\ ui = "clear_all_data"
    /\ ClearLoopDone(data_queue)
    /\ ClearAllDataFinish
    /\ UNCHANGED <<monitoring, active_channel_index, data_queue, add_channel_btn, start_btn,
                   threads, clock, new_data_added, drag_start, ocr_text, parsed, csvfile,
                   scheduled, raised, nput, created, purged, taken, appended, got_twice,
                   appended_twice, batch, before>>

(***************************************************************************)
(* Channels: add_channel.on_mouse_up, remove_channel, on_channel_change,   *)
(* toggle_channel_visibility.                                              *)
(***************************************************************************)
\* line 408: the dragged region is large enough
RegionOk(rect) == rect[3] - rect[1] > 10 /\ rect[4] - rect[2] > 10

\* lines 410-422: the new channel dict; name is the number in "通道 n"
\* (uid: history field, the channel's identity)
NewChannel(rect, channel_index, uid) ==
    [uid |-> uid, name |-> channel_index + 1, rect |-> rect, times |-> <<>>,
     values |-> <<>>, src |-> <<>>, visible |-> TRUE]

\* lines 399-458: the region is released in the selection window
AddChannel(rect) ==
    /\ ui = "idle"
    /\ add_channel_btn = NORMAL
    /\ Len(channels) < MaxChannels
    /\ created < MaxCreated
    /\ IF RegionOk(rect)
       THEN /\ channels' = Append(channels, NewChannel(rect, Len(channels), created + 1))
            /\ created' = created + 1
            /\ remove_channel_btn' = UpdateChannelsDisplay(channels')
            /\ start_btn' = NORMAL
       ELSE UNCHANGED <<channels, created, remove_channel_btn, start_btn>>
    /\ UNCHANGED <<monitoring, active_channel_index, data_queue, selected_points,
                   add_channel_btn, threads, clock, ui, new_data_added, xlim, ylim,
                   drag_start, ocr_text, parsed, csvfile, scheduled, view_before, raised,
                   nput, purged, stale, taken, appended, got_twice, appended_twice, batch,
                   before>>

\* lines 550-581: delete the active channel after the confirmation dialog
RemoveChannel(yes) ==
    /\ ui = "idle"
    /\ remove_channel_btn = NORMAL
    /\ IF channels # <<>> /\ yes
       THEN /\ channels' = Pop(channels, active_channel_index)
            /\ active_channel_index' =
                   IF channels' # <<>>
                   THEN Min2(active_channel_index, Len(channels') - 1)
                   ELSE 0
            /\ start_btn' = IF channels' # <<>> THEN start_btn ELSE DISABLED
            /\ remove_channel_btn' = UpdateChannelsDisplay(channels')
            /\ UpdateChart(channels')
       ELSE UNCHANGED <<channels, active_channel_index, start_btn, remove_channel_btn,
                        xlim, ylim, view_before>>
    /\ UNCHANGED <<monitoring, data_queue, selected_points, add_channel_btn, threads, clock,
                   ui, new_data_added, drag_start, ocr_text, parsed, csvfile, scheduled,
                   raised, nput, created, purged, stale, taken, appended, got_twice,
                   appended_twice, batch, before>>

\* lines 587-590: the first channel whose name is the selected text
FirstNamed(chs, name) ==
    CHOOSE i \in 0..(Len(chs) - 1) :
        /\ chs[i + 1].name = name
        /\ \A j \in 0..(Len(chs) - 1) : chs[j + 1].name = name => i <= j

\* lines 583-592: the combobox entry of channel k is selected
OnChannelChange(k) ==
    /\ ui = "idle"
    /\ k < Len(channels)
    /\ active_channel_index' = FirstNamed(channels, channels[k + 1].name)
    /\ remove_channel_btn' = UpdateChannelsDisplay(channels)
    /\ UpdateChart(channels)
    /\ UNCHANGED <<monitoring, channels, data_queue, selected_points, add_channel_btn,
                   start_btn, threads, clock, ui, new_data_added, drag_start, ocr_text,
                   parsed, csvfile, scheduled, raised, nput, created, purged, stale, taken,
                   appended, got_twice, appended_twice, batch, before>>

\* lines 657-660: the "show curve" checkbox of channel k
ToggleChannelVisibility(k) ==
    /\ ui = "idle"
    /\ k < Len(channels)
    /\ channels' = [channels EXCEPT ![k + 1].visible = ~@]
    /\ UpdateChart(channels')
    /\ UNCHANGED <<monitoring, active_channel_index, data_queue, selected_points,
                   add_channel_btn, remove_channel_btn, start_btn, threads, clock, ui,
                   new_data_added, drag_start, ocr_text, parsed, csvfile, scheduled, raised,
                   nput, created, purged, stale, taken, appended, got_twice, appended_twice,
                   batch, before>>

(***************************************************************************)
(* start_monitoring / stop_monitoring (src/ocr.py:667-701).                *)
(***************************************************************************)
\* a thread at pc with the for loop's index i and the iteration's timestamp
Thread(pc, i, timestamp) == [pc |-> pc, i |-> i, timestamp |-> timestamp]

\* every state a monitor_loop thread can be in
ThreadStates ==
    {Thread("top", 0, 0)}
        \cup {Thread("for", i, ts) : i \in 0..(MaxChannels - 1), ts \in 1..MaxClock}

\* lines 689-690: Thread(target=self.monitor_loop).start(): the new thread is at the
\* while test
StartThread(ths) == ths (+) SetToBag({Thread("top", 0, 0)})

\* one thread goes from state th to state th2
Moved(ths, th, th2) == (ths (-) SetToBag({th})) (+) SetToBag({th2})

\* monitor_loop returns: the thread ends
Exited(ths, th) == ths (-) SetToBag({th})

\* toggle_monitoring with monitoring off: start_monitoring (lines 674-690)
StartMonitoring ==
    /\ ui = "idle"
    /\ start_btn = NORMAL
    /\ ~monitoring
    /\ BagCardinality(threads) < MaxThreads
    /\ IF channels = <<>>
       THEN UNCHANGED <<monitoring, add_channel_btn, remove_channel_btn, threads>>
       ELSE /\ monitoring' = TRUE
            /\ add_channel_btn' = DISABLED
            /\ remove_channel_btn' = DISABLED
            /\ threads' = StartThread(threads)
    /\ UNCHANGED <<channels, active_channel_index, data_queue, selected_points, start_btn,
                   clock, ui, new_data_added, xlim, ylim, drag_start, ocr_text, parsed,
                   csvfile, scheduled, view_before, raised, nput, created, purged, stale,
                   taken, appended, got_twice, appended_twice, batch, before>>

\* toggle_monitoring with monitoring on: stop_monitoring (lines 692-701)
StopMonitoring ==
    /\ ui = "idle"
    /\ start_btn = NORMAL
    /\ monitoring
    /\ monitoring' = FALSE
    /\ add_channel_btn' = NORMAL
    /\ remove_channel_btn' = IF channels # <<>> THEN NORMAL ELSE remove_channel_btn
    /\ UNCHANGED <<channels, active_channel_index, data_queue, selected_points, start_btn,
                   threads, clock, ui, new_data_added, xlim, ylim, drag_start, ocr_text,
                   parsed, csvfile, scheduled, view_before, raised, nput, created, purged,
                   stale, taken, appended, got_twice, appended_twice, batch, before>>

(***************************************************************************)
(* monitor_loop (src/ocr.py:703-731), one copy per started thread.         *)
(* pc: "top" the while test, "for" the head of the for loop with i the     *)
(* iterator's index.  time.sleep(interval) and the except branch's         *)
(* time.sleep(1) change nothing and end at the while test, so a step that  *)
(* leads to one of them ends at "top".  A thread whose monitor_loop        *)
(* returned leaves the bag.  Every call of datetime.now() returns the next *)
(* clock tick.                                                             *)
(***************************************************************************)
\* faulty variant of LoopContinues: while True
LoopForever(flag) == TRUE

\* line 705: the while test lets the loop go on
LoopContinues(flag) == flag

\* lines 705-708, 728: test the flag; with channels present take the timestamp and
\* enter the for loop, without channels sleep and test again; with the flag cleared
\* return
MonitorLoopTop(th) ==
    /\ BagIn(th, threads)
    /\ th.pc = "top"
    /\ IF LoopContinues(monitoring)
       THEN IF channels # <<>>
            THEN /\ clock < MaxClock
                 /\ clock' = clock + 1
                 /\ threads' = Moved(threads, th, Thread("for", 0, clock + 1))
            ELSE UNCHANGED <<threads, clock>>
       ELSE /\ threads' = Exited(threads, th)
            /\ UNCHANGED clock
    /\ UNCHANGED <<monitoring, channels, active_channel_index, data_queue, selected_points,
                   add_channel_btn, remove_channel_btn, start_btn, ui, new_data_added, xlim,
                   ylim, drag_start, ocr_text, parsed, csvfile, scheduled, view_before,
                   raised, nput, created, purged, stale, taken, appended, got_twice,
                   appended_twice, batch, before>>

\* line 721: the reading put on the queue
\* (history fields: rid numbers the readings, uid is the channel it was captured from)
Reading(i, timestamp, value, rid, uid) ==
    [channel_index |-> i, timestamp |-> timestamp, value |-> value, rid |-> rid,
     uid |-> uid]

\* line 718: the parsed value is worth a reading
Accepts(value) == value # NoValue /\ value >= 0

\* lines 711-728: the for loop after the turn for channel index i: the iterator
\* yields the next channel, or is exhausted and time.sleep(interval) leads back to
\* the while test
AfterTurn(th, chs) ==
    IF th.i + 1 < Len(chs)
    THEN Thread("for", th.i + 1, th.timestamp)
    ELSE Thread("top", 0, 0)

\* line 98: queue.Queue() is built without a maxsize, and 0 means no limit
QueueMaxsize == 0

\* Queue.full(): a limit is set and reached
QueueFull(q) == QueueMaxsize > 0 /\ Len(q) >= QueueMaxsize

\* a put that holds its caller until the consumer has taken something
PutBlocking(q, block) == q # <<>>

\* line 721: put(..., block=False) raises queue.Full at once when the queue is full;
\* only a blocking put waits for the consumer
PutWaits(q, block) == block /\ QueueFull(q)

\* faulty variant of AfterCapture: the thread appends its reading to the series itself
AppendedByThread(chs, i, timestamp, value) ==
    IF value >= 0
    THEN [chs EXCEPT ![i + 1].times = Append(@, timestamp),
                     ![i + 1].values = Append(@, value)]
    ELSE chs

\* lines 711-721: self.channels after a turn that read (timestamp, value) for channel
\* i: the turn reads channel['rect'] and writes nothing to the channel or the list
AfterCapture(chs, i, timestamp, value) == chs

\* lines 711-726: one turn of the for loop: the iterator yields self.channels[i];
\* grab, recognise, parse, and put the reading if a value came out.  An exception
\* leaves the loop for the except branch (lines 729-731) and its time.sleep(1); a
\* queue.Full (lines 723-724) is logged and the loop goes on
MonitorLoopFor(th, outcome, value) ==
    /\ BagIn(th, threads)
    /\ th.pc = "for"
    /\ IF th.i < Len(channels)
       THEN IF outcome = "raise"
            THEN /\ threads' = Moved(threads, th, Thread("top", 0, 0))
                 /\ UNCHANGED <<data_queue, nput, channels>>
            ELSE /\ threads' = Moved(threads, th, AfterTurn(th, channels))
                 /\ channels' = AfterCapture(channels, th.i, th.timestamp, value)
                 /\ IF Accepts(value)
                    THEN /\ ~PutWaits(data_queue, FALSE)
                         /\ IF QueueFull(data_queue)
                            THEN UNCHANGED <<data_queue, nput>>
                            ELSE /\ nput < MaxReadings
                                 /\ nput' = nput + 1
                                 /\ data_queue' = Append(data_queue,
                                        Reading(th.i, th.timestamp, value, nput + 1,
                                                channels[th.i + 1].uid))
                    ELSE UNCHANGED <<data_queue, nput>>
       ELSE /\ threads' = Moved(threads, th, Thread("top", 0, 0))
            /\ UNCHANGED <<data_queue, nput, channels>>
    /\ stale' = stale \cap Carried(threads', data_queue')
    /\ UNCHANGED <<monitoring, active_channel_index, selected_points, add_channel_btn,
                   remove_channel_btn, start_btn, clock, ui, new_data_added, xlim, ylim,
                   drag_start, ocr_text, parsed, csvfile, scheduled, view_before, raised,
                   created, purged, taken, appended, got_twice, appended_twice, batch,
                   before>>

\* any step of a thread in state th
ThreadStep(th) ==
    \/ MonitorLoopTop(th)
    \/ \E outcome \in CaptureOutcomes, value \in ParseOutcomes :
           MonitorLoopFor(th, outcome, value)

(***************************************************************************)
(* Point selection (src/ocr.py:955-973, 1021-1063, 1094-1098).  A chart    *)
(* event carries the pointer's data coordinates: xdata in clock ticks and  *)
(* ydata in value units here.                                              *)
(***************************************************************************)
\* lines 956-957, 977, 1000: event.inaxes is self.ax: the pointer is inside the axis
\* limits
InAxes(x, y) ==
    /\ xlim[1] <= x * Unit
    /\ x * Unit <= xlim[2]
    /\ ylim[1] <= y * Unit
    /\ y * Unit <= ylim[2]

\* faulty variant of ScannedPoints: the hidden channels are scanned too
ScannedHidden(chs) ==
    {p \in (0..(Len(chs) - 1)) \X (0..(max_points - 1)) :
        p[2] < Min2(Len(chs[p[1] + 1].times), Len(chs[p[1] + 1].values))}

\* lines 1031-1038: the (channel, point) pairs the scan visits
ScannedPoints(chs) ==
    {p \in (0..(Len(chs) - 1)) \X (0..(max_points - 1)) :
        /\ chs[p[1] + 1].visible
        /\ chs[p[1] + 1].times # <<>>
        /\ chs[p[1] + 1].values # <<>>
        /\ p[2] < Min2(Len(chs[p[1] + 1].times), Len(chs[p[1] + 1].values))}

\* lines 1040-1041: (date2num(t) - xdata) ** 2 + (v - ydata) ** 2.  date2num gives
\* days, a tick is 1/TicksPerDay of a day, and the sum is kept in units of
\* 1/TicksPerDay^2
Dist(chs, p, x, y) ==
    LET t == chs[p[1] + 1].times[p[2] + 1]
        v == chs[p[1] + 1].values[p[2] + 1]
    IN  (t - x) * (t - x) + (v - y) * (v - y) * TicksPerDay * TicksPerDay

\* the scan order: channels in list order, points in index order
ScannedBefore(p, q) == p[1] < q[1] \/ (p[1] = q[1] /\ p[2] < q[2])

\* lines 1043-1046: the strict < keeps the first point of least distance
NearestPoint(chs, x, y) ==
    LET points == ScannedPoints(chs)
    IN  CHOOSE p \in points :
            \A q \in points \ {p} :
                \/ Dist(chs, p, x, y) < Dist(chs, q, x, y)
                \/ (Dist(chs, p, x, y) = Dist(chs, q, x, y) /\ ScannedBefore(p, q))

\* line 1049: min_distance < 0.001, with dist in units of 1/TicksPerDay^2
WithinThreshold(dist) == dist * 1000 < TicksPerDay * TicksPerDay

\* faulty variant of Selected: with ctrl the point is added and never removed
SelectedAdded(sel, point_key, ctrl) ==
    IF ctrl THEN sel \cup {point_key} ELSE {point_key}

\* lines 1050-1060: the selection after a point was found
Selected(sel, point_key, ctrl) ==
    IF ctrl
    THEN IF point_key \in sel THEN sel \ {point_key} ELSE sel \cup {point_key}
    ELSE {point_key}

\* a selected point that channels[channel_idx]['times'][point_idx] cannot read
Stale(chs, p) == p[1] >= Len(chs) \/ p[2] >= Len(chs[p[1] + 1].times)

\* update_selection_info (lines 841-865) reads the first three selected points and
\* raises IndexError on a stale one.  TRUE: it raises; the order of the list is not
\* kept here, so with more than three points and a stale one both outcomes are taken
SelectionInfoRaises(chs, sel) ==
    IF \A p \in sel : ~Stale(chs, p)
    THEN {FALSE}
    ELSE IF Cardinality(sel) <= 3 THEN {TRUE} ELSE {TRUE, FALSE}

\* on_click with a left double click: select_point (lines 956-963, 1021-1063); the
\* redraw at line 1063 is reached when update_selection_info returns
SelectPoint(x, y, ctrl) ==
    /\ ui = "idle"
    /\ InAxes(x, y)
    /\ IF channels # <<>> /\ ScannedPoints(channels) # {}
       THEN LET point_key == NearestPoint(channels, x, y)
            IN  IF WithinThreshold(Dist(channels, point_key, x, y))
                THEN /\ selected_points' = Selected(selected_points, point_key, ctrl)
                     /\ \E raises \in SelectionInfoRaises(channels, selected_points') :
                            IF raises
                            THEN UNCHANGED <<xlim, ylim, view_before>>
                            ELSE UpdateChart(channels)
                ELSE UNCHANGED <<selected_points, xlim, ylim, view_before>>
       ELSE UNCHANGED <<selected_points, xlim, ylim, view_before>>
    /\ UNCHANGED <<monitoring, channels, active_channel_index, data_queue, add_channel_btn,
                   remove_channel_btn, start_btn, threads, clock, ui, new_data_added,
                   drag_start, ocr_text, parsed, csvfile, scheduled, raised, nput, created,
                   purged, stale, taken, appended, got_twice, appended_twice, batch, before>>

\* on_click with the right button (lines 969-973)
OnClickRight ==
    /\ ui = "idle"
    /\ selected_points' = {}
    /\ UpdateChart(channels)
    /\ UNCHANGED <<monitoring, channels, active_channel_index, data_queue, add_channel_btn,
                   remove_channel_btn, start_btn, threads, clock, ui, new_data_added,
                   drag_start, ocr_text, parsed, csvfile, scheduled, raised, nput, created,
                   purged, stale, taken, appended, got_twice, appended_twice, batch, before>>

\* the "clear selection" button (lines 1094-1098)
ClearSelection ==
    /\ ui = "idle"
    /\ selected_points' = {}
    /\ UpdateChart(channels)
    /\ UNCHANGED <<monitoring, channels, active_channel_index, data_queue, add_channel_btn,
                   remove_channel_btn, start_btn, threads, clock, ui, new_data_added,
                   drag_start, ocr_text, parsed, csvfile, scheduled, raised, nput, created,
                   purged, stale, taken, appended, got_twice, appended_twice, batch, before>>

(***************************************************************************)
(* Pan and zoom: zoom_in, zoom_out, zoom_chart, on_scroll, the drag        *)
(* (on_click, on_motion, on_release) and reset_view                        *)
(* (src/ocr.py:955-1019, 1065-1092).  A factor is given in tenths.         *)
(***************************************************************************)
\* the limits Scaled(lim, factor) are whole numbers of 1/Unit
Exact(lim, factor) ==
    /\ (10 * (lim[1] + lim[2]) - (lim[2] - lim[1]) * factor) % 20 = 0
    /\ (10 * (lim[1] + lim[2]) + (lim[2] - lim[1]) * factor) % 20 = 0

\* lines 1078-1085 and 1006-1015: center = (lim[0] + lim[1]) / 2,
\* width = (lim[1] - lim[0]) * factor, [center - width/2, center + width/2]
Scaled(lim, factor) ==
    <<(10 * (lim[1] + lim[2]) - (lim[2] - lim[1]) * factor) \div 20,
      (10 * (lim[1] + lim[2]) + (lim[2] - lim[1]) * factor) \div 20>>

\* zoom_chart(factor) (lines 1073-1086), called by handler
ZoomChart(factor, handler) ==
    /\ Exact(xlim, factor)
    /\ Exact(ylim, factor)
    /\ xlim' = Scaled(xlim, factor)
    /\ ylim' = Scaled(ylim, factor)
    /\ view_before' = <<handler, xlim, ylim>>
    /\ UNCHANGED <<monitoring, channels, active_channel_index, data_queue, selected_points,
                   add_channel_btn, remove_channel_btn, start_btn, threads, clock, ui,
                   new_data_added, drag_start, ocr_text, parsed, csvfile, scheduled, raised,
                   nput, created, purged, stale, taken, appended, got_twice, appended_twice,
                   batch, before>>

\* zoom_in (lines 1065-1067): zoom_chart(0.8)
ZoomIn ==
    /\ ui = "idle"
    /\ ZoomChart(8, "zoom_in")

\* zoom_out (lines 1069-1071): zoom_chart(1.2)
ZoomOut ==
    /\ ui = "idle"
    /\ ZoomChart(12, "zoom_out")

\* the directions of a scroll event
ScrollButtons == {"up", "down"}

\* line 1003: scale_factor = 1.1 if event.button == 'up' else 0.9
ScaleFactor(button) == IF button = "up" THEN 11 ELSE 9

\* on_scroll (lines 998-1019) with the pointer over the axes
OnScroll(button) ==
    /\ ui = "idle"
    /\ Exact(xlim, ScaleFactor(button))
    /\ Exact(ylim, ScaleFactor(button))
    /\ xlim' = Scaled(xlim, ScaleFactor(button))
    /\ ylim' = Scaled(ylim, ScaleFactor(button))
    /\ view_before' = <<button, xlim, ylim>>
    /\ UNCHANGED <<monitoring, channels, active_channel_index, data_queue, selected_points,
                   add_channel_btn, remove_channel_btn, start_btn, threads, clock, ui,
                   new_data_added, drag_start, ocr_text, parsed, csvfile, scheduled, raised,
                   nput, created, purged, stale, taken, appended, got_twice, appended_twice,
                   batch, before>>

\* on_click with a single left click (lines 956-967): the drag begins
OnClickLeft(x, y) ==
    /\ ui = "idle"
    /\ InAxes(x, y)
    /\ drag_start' = <<x, y>>
    /\ UNCHANGED <<monitoring, channels, active_channel_index, data_queue, selected_points,
                   add_channel_btn, remove_channel_btn, start_btn, threads, clock, ui,
                   new_data_added, xlim, ylim, ocr_text, parsed, csvfile, scheduled,
                   view_before, raised, nput, created, purged, stale, taken, appended,
                   got_twice, appended_twice, batch, before>>

\* faulty variant of Shifted: the range moves with the pointer
Followed(lim, d) == <<lim[1] + d, lim[2] + d>>

\* lines 987-988: [lim[0] - d, lim[1] - d]
Shifted(lim, d) == <<lim[1] - d, lim[2] - d>>

\* on_motion with the left button held (lines 975-992)
OnMotion(x, y) ==
    /\ ui = "idle"
    /\ InAxes(x, y)
    /\ drag_start # <<>>
    /\ LET dx == (x - drag_start[1]) * Unit
           dy == (y - drag_start[2]) * Unit
       IN  /\ xlim' = Shifted(xlim, dx)
           /\ ylim' = Shifted(ylim, dy)
    /\ view_before' = <<"drag", xlim, ylim>>
    /\ UNCHANGED <<monitoring, channels, active_channel_index, data_queue, selected_points,
                   add_channel_btn, remove_channel_btn, start_btn, threads, clock, ui,
                   new_data_added, drag_start, ocr_text, parsed, csvfile, scheduled, raised,
                   nput, created, purged, stale, taken, appended, got_twice, appended_twice,
                   batch, before>>

\* faulty variant of OnRelease: the release also empties the selection
OnReleaseDeselects ==
    /\ ui = "idle"
    /\ drag_start' = <<>>
    /\ selected_points' = {}
    /\ UNCHANGED <<monitoring, channels, active_channel_index, data_queue, add_channel_btn,
                   remove_channel_btn, start_btn, threads, clock, ui, new_data_added, xlim,
                   ylim, ocr_text, parsed, csvfile, scheduled, view_before, raised, nput,
                   created, purged, stale, taken, appended, got_twice, appended_twice,
                   batch, before>>

\* on_release (lines 994-996)
OnRelease ==
    /\ ui = "idle"
    /\ drag_start' = <<>>
    /\ UNCHANGED <<monitoring, channels, active_channel_index, data_queue, selected_points,
                   add_channel_btn, remove_channel_btn, start_btn, threads, clock, ui,
                   new_data_added, xlim, ylim, ocr_text, parsed, csvfile, scheduled,
                   view_before, raised, nput, created, purged, stale, taken, appended,
                   got_twice, appended_twice, batch, before>>

\* reset_view (lines 1088-1092): relim() and autoscale_view() rescale an axis to the
\* plotted data only while matplotlib's autoscale flag of that axis is on, and
\* set_xlim/set_ylim switch it off; the flags are not kept here, so both outcomes
\* are taken
ResetView(rescales) ==
    /\ ui = "idle"
    /\ IF rescales /\ Plotted(channels) # {}
       THEN /\ xlim' = Autoscale(SetMin(PlottedTimes(channels)), SetMax(PlottedTimes(channels)))
            /\ ylim' = Autoscale(SetMin(AllValues(channels)), SetMax(AllValues(channels)))
       ELSE UNCHANGED <<xlim, ylim>>
    /\ view_before' = <<"reset_view", xlim, ylim>>
    /\ UNCHANGED <<monitoring, channels, active_channel_index, data_queue, selected_points,
                   add_channel_btn, remove_channel_btn, start_btn, threads, clock, ui,
                   new_data_added, drag_start, ocr_text, parsed, csvfile, scheduled, raised,
                   nput, created, purged, stale, taken, appended, got_twice, appended_twice,
                   batch, before>>

(***************************************************************************)
(* save_csv (src/ocr.py:1148-1201).  A cell of the file is a sequence of   *)
(* integers: <<>> is the empty string, a time cell holds the fields        *)
(* strftime prints and a value cell the number printed with two decimals,  *)
(* in hundredths.  A header cell is the number n of the name "通道 n", and  *)
(* 0 for the time column.                                                  *)
(***************************************************************************)
\* the whole seconds of a timestamp, counted from the clock's tick 0
Seconds(timestamp) == (timestamp * 24 * 60 * 60) \div TicksPerDay

\* line 1184: strftime('%Y-%m-%d %H:%M:%S'): the day, hour, minute and second
Strftime(timestamp) ==
    LET s == Seconds(timestamp)
    IN  <<s \div (24 * 60 * 60), (s % (24 * 60 * 60)) \div (60 * 60),
          (s % (60 * 60)) \div 60, s % 60>>

\* line 1193: f"{value:.2f}"
Format2(value) == <<value * 100>>

\* lines 1150, 1168, 1191: the channels that have values, in list order
WithValues(chs) == SelectSeq(chs, LAMBDA channel : channel.values # <<>>)

\* line 1150: any(len(channel['values']) > 0 for channel in self.channels)
AnyValues(chs) == WithValues(chs) # <<>>

\* lines 1166-1169: the header row
Headers(chs) == <<0>> \o [k \in 1..Len(WithValues(chs)) |-> WithValues(chs)[k].name]

\* faulty variant of MaxLength: the length of the first channel that has values
FirstLength(chs) == Len(WithValues(chs)[1].times)

\* line 1174: max(len(channel['times']) for channel in self.channels if channel['values'])
MaxLength(chs) == SetMax({Len(WithValues(chs)[k].times) : k \in 1..Len(WithValues(chs))})

\* lines 1181-1187: the time column of row i, taken from the first channel that has
\* times, whichever channels the value columns belong to
TimeCells(chs, i) ==
    LET with_times == {c \in 1..Len(chs) : chs[c].times # <<>>}
    IN  IF with_times = {}
        THEN <<>>
        ELSE LET channel == chs[SetMin(with_times)]
             IN  IF i < Len(channel.times)
                 THEN <<Strftime(channel.times[i + 1])>>
                 ELSE <<<<>>>>

\* lines 1190-1195: the value columns of row i
ValueCells(chs, i) ==
    [k \in 1..Len(WithValues(chs)) |->
        IF i < Len(WithValues(chs)[k].values)
        THEN Format2(WithValues(chs)[k].values[i + 1])
        ELSE <<>>]

\* lines 1177-1197: the data rows, for i in range(max_length)
Rows(chs) == [n \in 1..MaxLength(chs) |-> TimeCells(chs, n - 1) \o ValueCells(chs, n - 1)]

\* lines 1148-1201: the export button; filename tells whether the file dialog returned
\* a name.  Without data the warning is shown, and without a name nothing is written
SaveCsv(filename) ==
    /\ ui = "idle"
    /\ IF AnyValues(channels) /\ filename
       THEN csvfile' = [headers |-> Headers(channels), rows |-> Rows(channels)]
       ELSE UNCHANGED csvfile
    /\ UNCHANGED <<monitoring, channels, active_channel_index, data_queue, selected_points,
                   add_channel_btn, remove_channel_btn, start_btn, threads, clock, ui,
                   new_data_added, xlim, ylim, drag_start, ocr_text, parsed, scheduled,
                   view_before, raised, nput, created, purged, stale, taken, appended,
                   got_twice, appended_twice, batch, before>>

(***************************************************************************)
(* The program.  Next has every action.  The handlers of the chart write   *)
(* only selected_points, the visible flags, the axis limits and the drag   *)
(* state; outside the redraw, which only sets the axis limits, no guard or *)
(* assignment reads those, so the acquisition pipeline (capture loop,      *)
(* queue, series, channels, start/stop) is explored without them under     *)
(* AcquisitionSpec.  ChartSpec adds point selection and the visible flags, *)
(* with monitoring started only when no earlier thread is alive; LoopSpec  *)
(* is the capture loop with the handlers that decide what it sees.  The    *)
(* specifications after them are smaller slices: one for pan and zoom on   *)
(* their own, two for the series as readings arrive with the zoom buttons  *)
(* or with point selection, one for parse_value over its texts, one for    *)
(* the export, one for the press and release of a drag over the series,    *)
(* and one for the queue with runs of process_queue that raise.            *)
(***************************************************************************)
SeriesActions ==
    \/ ProcessQueueIdle
    \/ ProcessQueueGet
    \/ ProcessQueueEmpty
    \/ \E yes \in BOOLEAN : ClearAllDataConfirm(yes)
    \/ ClearAllDataGet
    \/ ClearAllDataEmpty

ChannelActions ==
    \/ \E rect \in Rects : AddChannel(rect)
    \/ \E yes \in BOOLEAN : RemoveChannel(yes)
    \/ \E k \in 0..(MaxChannels - 1) : OnChannelChange(k)

ChartActions ==
    \/ \E k \in 0..(MaxChannels - 1) : ToggleChannelVisibility(k)
    \/ \E x \in ClickX, y \in ClickY, ctrl \in BOOLEAN : SelectPoint(x, y, ctrl)
    \/ OnClickRight
    \/ ClearSelection

ViewActions ==
    \/ ZoomIn
    \/ ZoomOut
    \/ \E button \in ScrollButtons : OnScroll(button)
    \/ \E x \in ClickX, y \in PointerY : OnClickLeft(x, y)
    \/ \E x \in ClickX, y \in PointerY : OnMotion(x, y)
    \/ OnRelease
    \/ \E rescales \in BOOLEAN : ResetView(rescales)

CaptureActions == \E th \in ThreadStates : ThreadStep(th)

\* start_monitoring pressed when every earlier monitor_loop thread has returned
StartMonitoringAfterExit ==
    /\ threads = EmptyBag
    /\ StartMonitoring

Next ==
    \/ SeriesActions
    \/ ChannelActions
    \/ StartMonitoring
    \/ StopMonitoring
    \/ CaptureActions
    \/ ChartActions
    \/ ViewActions
    \/ ParseValue
    \/ \E filename \in BOOLEAN : SaveCsv(filename)
    \/ ProcessQueueRaiseApply
    \/ \E shown \in BOOLEAN : ProcessQueueRaiseRefresh(shown)

Spec == Init /\ [][Next]_vars

AcquisitionNext ==
    \/ SeriesActions
    \/ ChannelActions
    \/ StartMonitoring
    \/ StopMonitoring
    \/ CaptureActions

AcquisitionSpec == Init /\ [][AcquisitionNext]_vars

ChartNext ==
    \/ SeriesActions
    \/ ChannelActions
    \/ StartMonitoringAfterExit
    \/ StopMonitoring
    \/ CaptureActions
    \/ ChartActions

ChartSpec == Init /\ [][ChartNext]_vars

LoopNext ==
    \/ ChannelActions
    \/ StartMonitoring
    \/ StopMonitoring
    \/ CaptureActions

\* the scheduler runs every live thread, and every capture/OCR call returns
LoopSpec == Init /\ [][LoopNext]_vars /\ \A th \in ThreadStates : WF_vars(ThreadStep(th))


\* the handlers that set the axis limits, from the chart as it is first drawn
ViewSpec == Init /\ [][ViewActions]_vars

RedrawNext ==
    \/ ProcessQueueIdle
    \/ ProcessQueueGet
    \/ ProcessQueueEmpty
    \/ \E rect \in Rects : AddChannel(rect)
    \/ StartMonitoringAfterExit
    \/ CaptureActions
    \/ \E k \in 0..(MaxChannels - 1) : ToggleChannelVisibility(k)
    \/ ZoomIn
    \/ ZoomOut

\* the zoom buttons between the redraws that arriving data and the visible flags cause
RedrawSpec == Init /\ [][RedrawNext]_vars

SelectNext ==
    \/ ProcessQueueIdle
    \/ ProcessQueueGet
    \/ ProcessQueueEmpty
    \/ \E rect \in Rects : AddChannel(rect)
    \/ StartMonitoringAfterExit
    \/ CaptureActions
    \/ ChartActions

\* point selection and the visible flags over the series as readings arrive
SelectSpec == Init /\ [][SelectNext]_vars

ReleaseNext ==
    \/ SelectNext
    \/ \E x \in ClickX, y \in PointerY : OnClickLeft(x, y)
    \/ OnRelease

\* the press and the release of a drag over series that hold readings and a selection
ReleaseSpec == Init /\ [][ReleaseNext]_vars

\* a step of process_queue: a run that begins, its loop, and either of its ends
ProcessQueueStep ==
    \/ ProcessQueueIdle
    \/ ProcessQueueGet
    \/ ProcessQueueEmpty
    \/ ProcessQueueRaiseApply
    \/ \E shown \in BOOLEAN : ProcessQueueRaiseRefresh(shown)

\* a later step of clear_all_data's purge loop
ClearAllDataStep ==
    \/ ClearAllDataGet
    \/ ClearAllDataEmpty

QueueNext ==
    \/ ProcessQueueStep
    \/ \E yes \in BOOLEAN : ClearAllDataConfirm(yes)
    \/ ClearAllDataStep
    \/ \E rect \in Rects : AddChannel(rect)
    \/ StartMonitoringAfterExit
    \/ StopMonitoring
    \/ CaptureActions

\* the queue between the capture loop and the main loop, with runs of process_queue
\* that raise.  The main loop runs a pending root.after callback once the handler
\* before it has returned, and a handler that is inside a loop goes on
QueueSpec ==
    /\ Init
    /\ [][QueueNext]_vars
    /\ WF_vars(ProcessQueueStep)
    /\ WF_vars(ClearAllDataStep)

ExportNext ==
    \/ ProcessQueueIdle
    \/ ProcessQueueGet
    \/ ProcessQueueEmpty
    \/ \E rect \in Rects : AddChannel(rect)
    \/ StartMonitoringAfterExit
    \/ CaptureActions
    \/ \E filename \in BOOLEAN : SaveCsv(filename)

\* the CSV export over the series as readings arrive
ExportSpec == Init /\ [][ExportNext]_vars

\* parse_value applied to every text of at most MaxTokens tokens
ParseInit == \E text \in Texts : InitWith(text)

ParseSpec == ParseInit /\ [][ParseValue]_vars

(***************************************************************************)
(* Properties.                                                             *)
(***************************************************************************)
\* the last n entries of s, all of s when it has no more than n
Newest(s, n) == IF Len(s) > n THEN SubSeq(s, Len(s) - n + 1, Len(s)) ELSE s

\* the step is one turn of process_queue's loop that returned a reading
\* (batch changes in ProcessQueueGet and is emptied when the handler returns)
DequeueStep == ui' = "process_queue" /\ batch' # batch

\* the reading a DequeueStep returned
Dequeued == batch'[Len(batch')]

\* every series holds at most max_points entries
SeriesBounded ==
    \A c \in 1..Len(channels) :
        /\ Len(channels[c].times) <= max_points
        /\ Len(channels[c].values) <= max_points

\* a dequeued reading that applies is appended to its channel and the newest
\* max_points entries are kept; every other series is left as it was
AppendEvictsOldest ==
    DequeueStep =>
        /\ Len(channels') = Len(channels)
        /\ \A c \in 1..Len(channels) :
               IF /\ c = Dequeued.channel_index + 1
                  /\ Dequeued.value # NoValue
                  /\ Dequeued.value >= 0
               THEN /\ channels'[c].times =
                           Newest(Append(channels[c].times, Dequeued.timestamp), max_points)
                    /\ channels'[c].values =
                           Newest(Append(channels[c].values, Dequeued.value), max_points)
               ELSE channels'[c] = channels[c]

\* C1: in every state between UI steps each channel's times and values hold at most
\* max_points entries, and when an appended reading would exceed the cap the oldest
\* entries are evicted and the newest max_points retained.
C1_SeriesCapped == []SeriesBounded /\ [][AppendEvictsOldest]_vars

\* a full series took one more reading and lost its oldest entry
C1_Witness ==
    /\ ui = "process_queue"
    /\ Len(batch) = 1
    /\ \E c \in 1..Len(channels) :
           /\ Len(before[c].times) = max_points
           /\ channels[c].times = Append(Tail(before[c].times), batch[1].timestamp)

\* C2: in every state, for every channel, len(times) = len(values) and times[k] and
\* values[k] come from the same reading (the reading recorded for point k).
C2_Aligned ==
    \A c \in 1..Len(channels) :
        /\ Len(channels[c].times) = Len(channels[c].values)
        /\ Len(channels[c].times) = Len(channels[c].src)
        /\ \A k \in 1..Len(channels[c].src) :
               /\ k <= Len(channels[c].times) =>
                      channels[c].times[k] = channels[c].src[k].timestamp
               /\ k <= Len(channels[c].values) =>
                      channels[c].values[k] = channels[c].src[k].value

\* a full series was appended to, and holds points with different values
C2_Witness ==
    /\ ui = "process_queue"
    /\ \E c \in 1..Len(channels) :
           /\ Len(before[c].values) = max_points
           /\ channels[c].values # before[c].values
           /\ channels[c].values[1] # channels[c].values[max_points]

\* the readings of sequence s that process_queue applies to channel index i
ValidFor(s, i) ==
    LET Valid(r) == r.channel_index = i /\ r.value # NoValue /\ r.value >= 0
    IN  SelectSeq(s, Valid)

\* C3: while process_queue runs, and so when it returns, a channel whose series was
\* empty when the run began holds the newest min(N_valid, max_points) of the valid
\* readings dequeued for it, in their arrival order.
C3_DrainKeepsNewest ==
    ui = "process_queue" =>
        /\ Len(channels) = Len(before)
        /\ \A c \in 1..Len(channels) :
               before[c].times = <<>> /\ before[c].values = <<>> =>
                   LET kept == Newest(ValidFor(batch, c - 1), max_points)
                   IN  /\ Len(kept) = Min2(Len(ValidFor(batch, c - 1)), max_points)
                       /\ channels[c].times = [k \in 1..Len(kept) |-> kept[k].timestamp]
                       /\ channels[c].values = [k \in 1..Len(kept) |-> kept[k].value]

\* one run drained more than max_points readings for a channel that was empty
C3_Witness ==
    /\ ui = "process_queue"
    /\ data_queue = <<>>
    /\ Len(batch) = max_points + 1
    /\ \A k \in 1..Len(batch) : batch[k].channel_index = 0
    /\ before[1].times = <<>>
    /\ Len(channels[1].times) = max_points

\* the rids of the readings held by the queue and by every series, in one sequence
RECURSIVE SeriesRids(_)
SeriesRids(chs) ==
    IF chs = <<>>
    THEN <<>>
    ELSE [k \in 1..Len(Head(chs).src) |-> Head(chs).src[k].rid] \o SeriesRids(Tail(chs))

HeldRids == [k \in 1..Len(data_queue) |-> data_queue[k].rid] \o SeriesRids(channels)

\* C4: every reading is removed from the queue at most once and appended to a series
\* at most once, and no reading is held twice by the queue and the series together.
C4_AtMostOnce ==
    /\ ~got_twice
    /\ ~appended_twice
    /\ QueuedRids(data_queue) \cap taken = {}
    /\ \A j, k \in 1..Len(HeldRids) : HeldRids[j] = HeldRids[k] => j = k

\* the producer put a reading while process_queue was running, after a clear_all_data
\* had removed others
C4_Witness ==
    /\ ui = "process_queue"
    /\ data_queue # <<>>
    /\ appended # {}
    /\ purged # {}
    /\ purged \subseteq taken

\* C5: a reading that was in the queue when a confirmed clear_all_data ran is never
\* appended to a series.
C5_PurgedNeverAppended ==
    /\ purged \cap appended = {}
    /\ \A c \in 1..Len(channels) :
           \A k \in 1..Len(channels[c].src) : channels[c].src[k].rid \notin purged

\* clear_all_data removed queued readings, and a reading put later was appended
C5_Witness ==
    /\ ui = "idle"
    /\ purged # {}
    /\ \E c \in 1..Len(channels) :
           \E k \in 1..Len(channels[c].src) :
               \A rid \in purged : channels[c].src[k].rid > rid

\* the step is a confirmed clear_all_data returning: from its purge loop, or at once
\* when nothing was queued
ClearAllDataReturns ==
    \/ ui = "clear_all_data" /\ ui' = "idle"
    \/ /\ ui = "idle"
       /\ channels # <<>>
       /\ data_queue = <<>>
       /\ ClearAllDataConfirm(TRUE)

\* what holds when clear_all_data has returned
ClearedAll ==
    /\ \A c \in 1..Len(channels') :
           channels'[c].times = <<>> /\ channels'[c].values = <<>>
    /\ selected_points' = {}
    /\ QueuedRids(data_queue') \cap purged' = {}

\* C6: when a confirmed clear_all_data returns every series is empty, the readings that
\* were queued when it ran are gone from the queue, and selected_points is empty.
C6_ClearLeavesNothing == [][ClearAllDataReturns => ClearedAll]_vars

\* clear_all_data has purged the queue and is about to clear series that hold points
\* and a selection that holds a point
C6_Witness ==
    /\ ui = "clear_all_data"
    /\ data_queue = <<>>
    /\ purged # {}
    /\ selected_points # {}
    /\ \E c \in 1..Len(channels) : channels[c].times # <<>>

\* C7: no series holds a reading captured from a channel that was removed while the
\* reading was queued: every point's reading comes from a channel that still exists.
\* (Violated: the reading is appended to the channel now at its index.)
C7_RemovedChannelDropped ==
    \A c \in 1..Len(channels) :
        \A k \in 1..Len(channels[c].src) :
            \E d \in 1..Len(channels) : channels[d].uid = channels[c].src[k].uid

\* C8: every element (channel, index) of selected_points names an existing channel and
\* an index below that channel's series length.
\* (Violated: remove_channel leaves selected_points as it was.)
C8_SelectionValid ==
    \A p \in selected_points :
        /\ 0 <= p[1]
        /\ p[1] < Len(channels)
        /\ 0 <= p[2]
        /\ p[2] < Len(channels[p[1] + 1].times)

\* C9: at most one monitor_loop thread is inside its capture loop at any time.
\* (Violated: a thread that is still asleep when monitoring is started again goes on
\* beside the new one.)
C9_SingleCaptureLoop ==
    \A th1, th2 \in ThreadStates :
        (th1.pc = "for" /\ th2.pc = "for" /\ BagIn(th1, threads) /\ BagIn(th2, threads))
            => (th1 = th2 /\ CopiesIn(th1, threads) = 1)

\* with the flag cleared no capture iteration begins: datetime.now() is not called and
\* no thread enters the for loop
NoNewIteration ==
    (~monitoring /\ ~monitoring') =>
        /\ clock' = clock
        /\ \A ts \in 1..MaxClock :
               CopiesIn(Thread("for", 0, ts), threads')
                   <= CopiesIn(Thread("for", 0, ts), threads)

\* a thread ends only at the while test, with the flag cleared
ExitsOnlyAtTest ==
    BagCardinality(threads') < BagCardinality(threads) =>
        /\ ~monitoring
        /\ CopiesIn(Thread("top", 0, 0), threads') < CopiesIn(Thread("top", 0, 0), threads)
        /\ \A th \in ThreadStates :
               th.pc = "for" => CopiesIn(th, threads') = CopiesIn(th, threads)

\* C10: once stop_monitoring has cleared the flag, and while monitoring is not started
\* again, no further capture iteration begins, a thread inside an iteration is not cut
\* short (threads end only at the while test), and every thread eventually exits.
C10_CooperativeStop ==
    /\ [][NoNewIteration]_vars
    /\ [][ExitsOnlyAtTest]_vars
    /\ (~monitoring ~> (monitoring \/ threads = EmptyBag))

\* monitoring was stopped while a thread was inside a capture iteration
C10_Witness ==
    /\ ~monitoring
    /\ \E th \in ThreadStates : th.pc = "for" /\ BagIn(th, threads)

\* the thread in state th left the turn of the for loop for channel th.i, and went on
\* to the turn for the next channel of the same iteration
NextChannelCaptured(th) ==
    (/\ th.pc = "for"
     /\ th.i + 1 < Len(channels)
     /\ CopiesIn(th, threads') < CopiesIn(th, threads))
        => CopiesIn(Thread("for", th.i + 1, th.timestamp), threads')
               > CopiesIn(Thread("for", th.i + 1, th.timestamp), threads)

\* C11: when the capture or the OCR of one channel raises, the channels after it are
\* still captured in the same iteration: a thread that leaves the turn for a channel
\* which is not the last goes on to the turn for the next channel.
\* (Violated: the try statement encloses the for loop, so the exception ends the
\* iteration and the channels after the failing one are skipped.)
C11_FailureIsolated == [][\A th \in ThreadStates : NextChannelCaptured(th)]_vars

\* C20: a channel's identifier (the index the readings carry, and the number in the
\* name given at creation) stays with the channel for its lifetime and is not used by
\* another channel: the channel with creation number uid is at index uid - 1, and no two
\* channels have the same name.
\* (Violated: remove_channel shifts the later channels down one index, and add_channel
\* names the new channel after the length of the list.)
C20_IdentifierStable ==
    /\ \A c \in 1..Len(channels) : channels[c].uid = c
    /\ \A c, d \in 1..Len(channels) : channels[c].name = channels[d].name => c = d

\* the turn of the for loop in which thread th has read value for its channel can be
\* taken whatever the queue holds (MaxReadings caps the readings of one run)
PutCompletes(th, value) ==
    (/\ BagIn(th, threads)
     /\ th.pc = "for"
     /\ th.i < Len(channels)
     /\ Accepts(value)
     /\ nput < MaxReadings)
        => ENABLED MonitorLoopFor(th, "ok", value)

\* a turn of the for loop that put a reading, or dropped it on a full queue, went on
\* to the next channel or to the sleep
PutProceeds ==
    \A th \in ThreadStates :
        (/\ th.pc = "for"
         /\ th.i < Len(channels)
         /\ CopiesIn(th, threads') < CopiesIn(th, threads)
         /\ \/ data_queue' # data_queue
            \/ QueueFull(data_queue))
            => /\ BagIn(AfterTurn(th, channels), threads')
               /\ IF QueueFull(data_queue)
                  THEN data_queue' = data_queue
                  ELSE /\ Len(data_queue') = Len(data_queue) + 1
                       /\ SubSeq(data_queue', 1, Len(data_queue)) = data_queue

\* C12: the enqueue step of the capture loop never waits for the consumer: whatever the
\* queue holds, the turn that has a value to put can be taken, it appends the reading
\* or, on a full queue, drops it, and the thread goes on to the next channel or the sleep.
C12_PutNeverWaits ==
    /\ [](\A th \in ThreadStates : \A value \in Values : PutCompletes(th, value))
    /\ [][PutProceeds]_vars

\* a reading was put while the consumer had taken none of the earlier ones
C12_Witness ==
    /\ Len(data_queue) = MaxReadings
    /\ taken = {}

\* some run of process_queue on the empty queue changes the program's state: a
\* series, a display, the axis limits, or the flag that says data was added
EmptyDrainChanges == ENABLED (ProcessQueueIdle /\ (new_data_added' \/ vars' # vars))

\* C16: process_queue run on an empty queue finds no data added, so it refreshes no
\* display and redraws nothing, and it leaves every series as it was; the state after
\* it is the state before it, so any number of runs has the same effect.
C16_EmptyDrainIdle ==
    (ui = "idle" /\ data_queue = <<>>) =>
        /\ ENABLED ProcessQueueIdle
        /\ ~EmptyDrainChanges

\* nothing is queued while the series hold points and the user has zoomed, so that a
\* redraw would show
C16_Witness ==
    /\ ui = "idle"
    /\ data_queue = <<>>
    /\ view_before # <<>>
    /\ \E c \in 1..Len(channels) : channels[c].times # <<>>

\* the step is a step of a monitor_loop thread: a thread moved, and it was not
\* start_monitoring that added it
CaptureStep == threads' # threads /\ monitoring' = monitoring

\* C13: every step of a capture thread leaves the channel list (regions, visible flags,
\* names), every series, selected_points and the axis limits as they were, and also the
\* flag, the buttons and the drag state: of the program's shared state it changes only
\* the queue.
C13_CaptureWritesQueueOnly ==
    [][CaptureStep => UNCHANGED <<channels, selected_points, xlim, ylim, drag_start,
                                  monitoring, active_channel_index, add_channel_btn,
                                  remove_channel_btn, start_btn, ui, new_data_added>>]_vars

\* a capture thread has put a reading while the series held points, one of them
\* selected
C13_Witness ==
    /\ ui = "idle"
    /\ selected_points # {}
    /\ data_queue # <<>>
    /\ \A k \in 1..Len(data_queue) : data_queue[k].rid \notin purged
    /\ \E c \in 1..Len(channels) : \E k \in 1..Len(channels[c].src) :
           channels[c].src[k].rid < data_queue[1].rid

\* the step is handler second setting the axis limits that handler first had set just
\* before, with no redraw or other handler between
Follows(first, second) ==
    /\ view_before # <<>>
    /\ view_before[1] = first
    /\ view_before' = <<second, xlim, ylim>>

\* the step puts the axis limits back to what they were before the earlier handler
ViewRestored == xlim' = view_before[2] /\ ylim' = view_before[3]

\* C17: zoom_in followed by zoom_out, and a scroll followed by a scroll the other way,
\* leave both axes with the limits they had before the pair.  The model's arithmetic is
\* exact, so "within tolerance" is equality.
\* (Violated: 0.8 * 1.2 = 0.96 and 1.1 * 0.9 = 0.99.)
C17_ZoomRoundTrip ==
    [][/\ Follows("zoom_in", "zoom_out") => ViewRestored
       /\ Follows("up", "down") => ViewRestored
       /\ Follows("down", "up") => ViewRestored]_vars

\* the step is one of the handlers that set the axis limits for the user
ViewportHandler ==
    \/ ZoomIn
    \/ ZoomOut
    \/ \E button \in ScrollButtons : OnScroll(button)
    \/ \E x \in ClickX, y \in ClickY : OnMotion(x, y)
    \/ \E rescales \in BOOLEAN : ResetView(rescales)

\* C19: the axis limits change only in a step of a drag move, a scroll, zoom_in,
\* zoom_out or reset_view; process_queue with its redraw, the selection handlers and
\* the visibility toggle leave them as they were.
\* (Violated: every redraw begins with ax.clear() and sets the limits from the data.)
C19_ViewportOwned == [][(xlim' # xlim \/ ylim' # ylim) => ViewportHandler]_vars

\* a double click at (x, y) can be made, and the scan finds a point within the threshold
Hit(x, y) ==
    /\ ui = "idle"
    /\ InAxes(x, y)
    /\ ScannedPoints(channels) # {}
    /\ WithinThreshold(Dist(channels, NearestPoint(channels, x, y), x, y))

\* a double click at (x, y) can be made, and no point is within the threshold
Miss(x, y) ==
    /\ ui = "idle"
    /\ InAxes(x, y)
    /\ \A p \in ScannedPoints(channels) : ~WithinThreshold(Dist(channels, p, x, y))

\* the step changed the membership of p in selected_points and of no other point, and
\* the same click can be made again on the same series
Toggled(p, x, y) ==
    /\ p \in selected_points' <=> p \notin selected_points
    /\ selected_points' \ {p} = selected_points \ {p}
    /\ channels' = channels
    /\ InAxes(x, y)'

\* C18: a double click with ctrl held that finds a point within the threshold toggles
\* that point in selected_points and nothing else, so the same click made twice gives
\* back the earlier contents; a double click with no point within the threshold, with or
\* without ctrl, leaves selected_points as it was.
C18_CtrlSelectToggles ==
    \A x \in ClickX, y \in ClickY :
        /\ Hit(x, y) =>
               /\ ENABLED SelectPoint(x, y, TRUE)
               /\ ~ENABLED (/\ SelectPoint(x, y, TRUE)
                            /\ ~Toggled(NearestPoint(channels, x, y), x, y))
        /\ Miss(x, y) =>
               \A ctrl \in BOOLEAN :
                   /\ ENABLED SelectPoint(x, y, ctrl)
                   /\ ~ENABLED (SelectPoint(x, y, ctrl) /\ selected_points' # selected_points)

\* two points are selected, a click can find one of them, and another click finds no
\* point within the threshold
C18_Witness ==
    /\ Cardinality(selected_points) >= 2
    /\ \E x \in ClickX, y \in ClickY :
           Hit(x, y) /\ NearestPoint(channels, x, y) \in selected_points
    /\ \E x \in ClickX, y \in ClickY : Miss(x, y) /\ ScannedPoints(channels) # {}

\* C14: parse_value returns None or a value v with 0 <= v <= 100000, for the texts the
\* capture loop reads and for every text of the model; so every value in the queue
\* and every value in a series is in that range.
C14_ValuesInRange ==
    /\ \A v \in ParseOutcomes \cup ParseResults : v = NoValue \/ (0 <= v /\ v <= MaxValue)
    /\ \A k \in 1..Len(data_queue) :
           0 <= data_queue[k].value /\ data_queue[k].value <= MaxValue
    /\ \A c \in 1..Len(channels) :
           \A k \in 1..Len(channels[c].values) :
               0 <= channels[c].values[k] /\ channels[c].values[k] <= MaxValue

\* the queue and a series hold values, the least value of the range among them, after
\* texts with none and with a number out of range were read
C14_Witness ==
    /\ NoValue \in ParseOutcomes
    /\ \E text \in OcrTexts : \E k \in 1..Len(text) : Float(text[k].digits) > MaxValue
    /\ data_queue # <<>>
    /\ \E c \in 1..Len(channels) :
           \E k \in 1..Len(channels[c].values) :
               channels[c].values[k] = 0 /\ data_queue[1].value > 0

\* the value of pattern i's first match in the text given to parse_value
MatchValue(i) == Float(Group(patterns[i], ocr_text, Search(patterns[i], ocr_text)))

\* the patterns that match the text with a value in the range
GoodPatterns ==
    {i \in 1..Len(patterns) :
        /\ Search(patterns[i], ocr_text) # 0
        /\ 0 <= MatchValue(i)
        /\ MatchValue(i) <= MaxValue}

\* position k holds the text's first number that has the count-rate label before it
\* and the unit after it
FirstLabelledWithUnit(k) ==
    LET At(j) == /\ 1 < j
                 /\ j < Len(ocr_text)
                 /\ ocr_text[j - 1] = Word("countrate:")
                 /\ IsNumber(ocr_text[j])
                 /\ ocr_text[j + 1] \in {Word("cps"), Word("CPS")}
    IN  At(k) /\ \A j \in 1..(k - 1) : ~At(j)

\* C15: parse_value returns the value of the first pattern, in the order of the list,
\* whose match has a value in [0, 100000], so a pattern whose match is out of range is
\* passed over; it returns None when no pattern has such a match; and a number with
\* label and unit, when in range, is returned whatever bare numbers the text holds.
C15_FirstInRangePattern ==
    parsed # <<>> =>
        /\ GoodPatterns = {} => parsed[1] = NoValue
        /\ GoodPatterns # {} => parsed[1] = MatchValue(SetMin(GoodPatterns))
        /\ \A k \in 1..Len(ocr_text) :
               (FirstLabelledWithUnit(k) /\ Float(ocr_text[k].digits) <= MaxValue)
                   => parsed[1] = Float(ocr_text[k].digits)

\* parse_value passed over a labelled number out of range and returned the bare
\* number before it
C15_Witness ==
    /\ parsed # <<>>
    /\ parsed[1] # NoValue
    /\ 1 \notin GoodPatterns
    /\ Search(patterns[1], ocr_text) # 0
    /\ IsNumber(ocr_text[1])
    /\ parsed[1] = Float(ocr_text[1].digits)


(***************************************************************************)
(* The CSV export.                                                         *)
(***************************************************************************)
\* strptime of a time cell: the seconds it names
Strptime(cell) == ((cell[1] * 24 + cell[2]) * 60 + cell[3]) * 60 + cell[4]

\* the column of the file that holds the k-th channel with values
Column(k) == k + 1

\* the (seconds, hundredths) pairs read back from the rows that have a value in
\* column col; a row whose time cell is empty gives no time (-1)
Reparsed(file, col) ==
    LET filled == SelectSeq(file.rows, LAMBDA row : row[col] # <<>>)
    IN  [n \in 1..Len(filled) |->
            <<IF filled[n][1] = <<>> THEN -1 ELSE Strptime(filled[n][1]), filled[n][col][1]>>]

\* the (timestamp, value) pairs of a channel, to the second and to two decimals
Pairs(channel) ==
    [n \in 1..Len(channel.times) |-> <<Seconds(channel.times[n]), channel.values[n] * 100>>]

\* save_csv writes the file
Exports == csvfile' # csvfile

\* C21: for every channel included in a CSV export, re-parsing the exported rows
\* reproduces that channel's own (timestamp, value) pairs, also when channels of
\* different lengths or sample times are exported together
C21_ExportRoundTrip ==
    [][Exports =>
          \A k \in 1..Len(WithValues(channels)) :
              Reparsed(csvfile', Column(k)) = Pairs(WithValues(channels)[k])]_vars

\* C22: the export writes exactly max(len(times)) data rows, the maximum over the
\* channels that have data; a shorter channel has an empty cell in every row past its
\* own length, and every row has one time cell and one cell per channel with data
C22_ExportShape ==
    [][Exports =>
          LET with_data == WithValues(channels)
              lengths == {Len(with_data[k].times) : k \in 1..Len(with_data)}
              rows == csvfile'.rows
          IN  /\ Len(rows) \in lengths
              /\ \A n \in lengths : n <= Len(rows)
              /\ \A i \in 1..Len(rows) :
                    /\ Len(rows[i]) = 1 + Len(with_data)
                    /\ \A k \in 1..Len(with_data) :
                          (rows[i][Column(k)] = <<>>) <=> (i > Len(with_data[k].values))]_vars

\* a file of two channels was written in which the shorter channel has an empty cell
C22_Witness ==
    /\ Len(csvfile.headers) = 3
    /\ Len(csvfile.rows) = 2
    /\ \E k \in 2..3 : csvfile.rows[2][k] = <<>> /\ csvfile.rows[1][k] # <<>>
    /\ \A i \in 1..2 : Len(csvfile.rows[i]) = 3

(***************************************************************************)
(* Selection over eviction.                                                *)
(***************************************************************************)
\* the reading a selection point designates in chs (0 when it designates none)
SampleAt(chs, p) ==
    IF p[1] < Len(chs) /\ p[2] < Len(chs[p[1] + 1].src)
    THEN chs[p[1] + 1].src[p[2] + 1].rid
    ELSE 0

\* the readings a turn of process_queue evicts from the channel at list index c
EvictedFrom(c) ==
    {channels[c + 1].src[n].rid : n \in 1..Len(channels[c + 1].src)}
        \ {channels'[c + 1].src[n].rid : n \in 1..Len(channels'[c + 1].src)}

\* C24: when process_queue evicts the oldest entries of a channel, every selection
\* point on that channel that referenced an evicted sample is dropped from
\* selected_points, and no selection point is left designating a different sample
\* than the one that was selected
C24_EvictionDropsSelection ==
    [][ui' = "process_queue" =>
          \A p \in selected_points :
              SampleAt(channels, p) # 0 /\ EvictedFrom(p[1]) # {} =>
                  /\ SampleAt(channels, p) \in EvictedFrom(p[1]) => p \notin selected_points'
                  /\ p \in selected_points' => SampleAt(channels', p) = SampleAt(channels, p)]_vars

(***************************************************************************)
(* The channel list while monitoring.                                      *)
(***************************************************************************)
\* the channels of the list, by identity
ChannelList(chs) == [c \in 1..Len(chs) |-> chs[c].uid]

\* C25: while the monitoring flag is set the channel list cannot change: from
\* start_monitoring until stop_monitoring the add-channel and remove-channel controls
\* stay disabled, whatever readings are drained in between
C25_ChannelsFixedWhileMonitoring ==
    [][monitoring /\ monitoring' =>
          /\ add_channel_btn' = DISABLED
          /\ remove_channel_btn' = DISABLED
          /\ ChannelList(channels') = ChannelList(channels)]_vars

(***************************************************************************)
(* Capture passes that straddle clear_all_data.                            *)
(***************************************************************************)
\* process_queue appends the reading at the head of the queue to a series
AppendsHead == appended' # appended

\* C26: under every interleaving, after clear_all_data completes no point whose
\* capture timestamp is earlier than the clear is appended to any channel: a capture
\* pass that took its timestamp before the clear and enqueues after it does not
\* reintroduce pre-clear samples
C26_NoPreClearSamples ==
    [][AppendsHead => Head(data_queue).timestamp \notin stale]_vars

(***************************************************************************)
(* The order of a series.                                                  *)
(***************************************************************************)
\* C27: in every reachable state each channel's times sequence is in non-decreasing
\* timestamp order, under any sequence of start and stop and any interleaving of
\* capture with drain
C27_TimesOrdered ==
    \A c \in 1..Len(channels) :
        \A n \in 1..(Len(channels[c].times) - 1) :
            channels[c].times[n] <= channels[c].times[n + 1]

(***************************************************************************)
(* Dragging the chart.                                                     *)
(***************************************************************************)
\* the step moved both ranges by -(p - drag_start) for the pointer at p = (x, y),
\* kept both widths and kept drag_start
Translated(x, y) ==
    /\ xlim'[1] = xlim[1] - (x - drag_start[1]) * Unit
    /\ ylim'[1] = ylim[1] - (y - drag_start[2]) * Unit
    /\ xlim'[2] - xlim'[1] = xlim[2] - xlim[1]
    /\ ylim'[2] - ylim'[1] = ylim[2] - ylim[1]
    /\ drag_start' = drag_start

Width(lim) == lim[2] - lim[1]
Midpoint2(lim) == lim[1] + lim[2]

\* on_scroll has set the limits
Scrolls ==
    /\ view_before' # <<>>
    /\ view_before'[1] \in ScrollButtons
    /\ view_before' # view_before

\* C29: a scroll event scales the width of both axis ranges by 1/1.1 in the zoom-in
\* direction and by 1.1 in the zoom-out direction, keeping each range's midpoint
\* fixed regardless of the pointer position
C29_ScrollScales ==
    [][Scrolls =>
          /\ Midpoint2(xlim') = Midpoint2(xlim)
          /\ Midpoint2(ylim') = Midpoint2(ylim)
          /\ \/ 11 * Width(xlim') = 10 * Width(xlim) /\ 11 * Width(ylim') = 10 * Width(ylim)
             \/ 10 * Width(xlim') = 11 * Width(xlim) /\ 10 * Width(ylim') = 11 * Width(ylim)]_vars

(***************************************************************************)
(* Selection without the multi-select modifier.                            *)
(***************************************************************************)
\* the points of the visible channels
VisiblePoints ==
    {p \in (0..(Len(channels) - 1)) \X (0..(max_points - 1)) :
        channels[p[1] + 1].visible /\ p[2] < Len(channels[p[1] + 1].times)}

\* the points of the hidden channels
HiddenPoints ==
    {p \in (0..(Len(channels) - 1)) \X (0..(max_points - 1)) :
        ~channels[p[1] + 1].visible /\ p[2] < Len(channels[p[1] + 1].times)}

\* the squared distance of point p to (x, y) is below the threshold
Near(p, x, y) == WithinThreshold(Dist(channels, p, x, y))

\* the step left exactly one selected point: a visible point that is below the
\* threshold and as near to (x, y) as any visible point
SelectedNearest(x, y) ==
    \E p \in VisiblePoints :
        /\ selected_points' = {p}
        /\ Near(p, x, y)
        /\ \A q \in VisiblePoints : Dist(channels, p, x, y) <= Dist(channels, q, x, y)

\* C30: a double click without ctrl sets selected_points to exactly the singleton of
\* the nearest point among the visible channels when that point's squared distance to
\* the click is below the threshold, and leaves selected_points unchanged when no
\* point is below the threshold; points of hidden channels are never selected
C30_SingleSelectNearest ==
    \A x \in ClickX, y \in ClickY :
        ui = "idle" /\ InAxes(x, y) =>
            /\ ENABLED SelectPoint(x, y, FALSE)
            /\ IF \E p \in VisiblePoints : Near(p, x, y)
               THEN ~ENABLED (SelectPoint(x, y, FALSE) /\ ~SelectedNearest(x, y))
               ELSE ~ENABLED (SelectPoint(x, y, FALSE) /\ selected_points' # selected_points)

\* one point is selected, a click without ctrl would replace it by another point, and
\* another click has only a hidden point below the threshold
C30_Witness ==
    /\ Cardinality(selected_points) = 1
    /\ \E x \in ClickX, y \in ClickY :
           /\ ui = "idle" /\ InAxes(x, y)
           /\ \E p \in VisiblePoints : Near(p, x, y) /\ p \notin selected_points
    /\ \E x \in ClickX, y \in ClickY :
           /\ ui = "idle" /\ InAxes(x, y)
           /\ \E p \in HiddenPoints : Near(p, x, y)
           /\ \A p \in VisiblePoints : ~Near(p, x, y)

(***************************************************************************)
(* The start/stop control.                                                 *)
(***************************************************************************)
\* C33: whenever the monitoring flag is set the start/stop control is enabled, so
\* stop_monitoring is always in the user's reach; the control is disabled only in
\* states where monitoring is off and no channel exists
C33_StopReachable ==
    /\ monitoring => start_btn = NORMAL
    /\ start_btn = DISABLED => ~monitoring /\ channels = <<>>

\* C32: a release event is always handled, clears drag_start and leaves the axis
\* limits, selected_points and every series as they were; once drag_start is cleared
\* no move event changes the axis limits, and no handler other than a single left
\* press in the axes records a new drag_start
C32_ReleaseEndsDrag ==
    /\ ui = "idle" => ENABLED OnRelease
    /\ ~ENABLED (OnRelease /\ ~(/\ drag_start' = <<>>
                                /\ UNCHANGED <<xlim, ylim, selected_points, channels>>))
    /\ drag_start = <<>> =>
           /\ \A x \in ClickX, y \in PointerY :
                  ~ENABLED (OnMotion(x, y) /\ <<xlim, ylim>>' # <<xlim, ylim>>)
           /\ ~ENABLED (/\ Next
                        /\ drag_start' # <<>>
                        /\ ~\E x \in ClickX, y \in PointerY : OnClickLeft(x, y))

\* a drag is active over a series that holds readings, one of them selected: the
\* state in which the release has a selection and series to leave alone
C32_Witness ==
    /\ ui = "idle"
    /\ drag_start # <<>>
    /\ selected_points # {}
    /\ \E c \in 1..Len(channels) : channels[c].values # <<>>


(***************************************************************************)
(* The queue is drained.                                                   *)
(***************************************************************************)
\* C31: process_queue is scheduled again after every run, a run that ended in its
\* except clause included, and every reading that is in the queue is eventually
\* taken out of it by the main loop (by process_queue or by clear_all_data's purge)
C31_QueueDrained ==
    /\ []scheduled
    /\ \A rid \in 1..MaxReadings :
           (rid \in QueuedRids(data_queue))
               ~> (rid \in taken /\ rid \notin QueuedRids(data_queue))

\* a reading waits in the queue and the run of process_queue before it raised
C31_Witness ==
    /\ ui = "idle"
    /\ raised
    /\ scheduled
    /\ data_queue # <<>>
=============================================================================
